---- MODULE Spec2Model ----
(***************************************************************************)
(* Model of the animal tower game: the sprite-to-collision-polygon         *)
(* pipeline (polygon_extractor.py), the class-level polygon cache          *)
(* (animal.py) and the game loop that drives them (game_manager.py).       *)
(*                                                                         *)
(* Coordinates are integers counted in 1/Scale pixel, so that width / 2    *)
(* and width / 2 * 0.9 are exact.  Arithmetic is exact: the rounding of    *)
(* Python floats is not modelled.                                          *)
(***************************************************************************)
EXTENDS Integers, Sequences, FiniteSets, TLC

VARIABLES
    surface,            \* extract_polygon_from_surface: the image and its boundary trace
    simplify_tolerance, \* extract_polygon_from_surface: argument of the call, in pixels
    max_vertices,       \* extract_polygon_from_surface: argument of the call
    result,             \* what the call returned (polygon and the stages it called)
    pc,                 \* "ready" before the call, "done" after it
    polygon_cache,      \* Animal._polygon_cache: image name -> polygon
    image_cache,        \* Animal._image_cache: the image names loaded
    extract_runs,       \* history: image name -> times the pipeline was run for it
    returned,           \* history: image name -> the polygons _get_polygon returned for it
    raised,             \* history: the image names whose extraction raised
    gm_state,           \* GameManager.state
    animals,            \* GameManager.animals
    current_animal,     \* GameManager.current_animal (None when there is none)
    next_animal_name,   \* GameManager.next_animal_name
    score,              \* GameManager.score
    max_height,         \* GameManager.max_height
    tower_height,       \* GameManager.tower_height
    threads,            \* callers of _get_polygon: thread -> its position in the method
    subject,            \* one Animal followed with its pymunk body and shape
    space,              \* PhysicsManager.space: the bodies and shapes added to it
    escaped,            \* the method an exception left, "none" when none did
    runs                \* history: the calls of the pipeline made on one surface

pipelineVars == <<surface, simplify_tolerance, max_vertices, result, pc>>
cacheVars == <<polygon_cache, image_cache, extract_runs, returned, raised>>
gameVars == <<gm_state, animals, current_animal, next_animal_name, score, max_height,
              tower_height>>
bodyVars == <<subject, space, escaped>>
vars == <<pipelineVars, cacheVars, gameVars, threads, bodyVars, runs>>

(***************************************************************************)
(* Bounds and input sets                                                   *)
(***************************************************************************)
\* 1 pixel = Scale units (width / 2 * 0.9 = 9 * width units)
Scale == 20

\* longest boundary trace mask.outline() returns in the model
MaxTrace == 4

\* image sizes (width, height) in pixels
Sizes == {<<3, 3>>, <<4, 2>>}

\* tolerances in pixels (3 is the value Animal._get_polygon passes)
Tolerances == {0, 1, 3}

\* vertex budgets (12 is the value Animal._get_polygon passes)
VertexBudgets == {1, 3, 4, 12}

Pixels(size) == (0 .. size[1] - 1) \X (0 .. size[2] - 1)

\* the all-transparent image of width 40 and height 20: mask.outline() is empty
TransparentSurface == [width |-> 40, height |-> 20, outline |-> <<>>]

NoResult == [polygon |-> <<>>, calls |-> <<>>]

(***************************************************************************)
(* Sequence helpers (Python list operations)                               *)
(***************************************************************************)
\* points[:-1]
Front(s) == SubSeq(s, 1, Len(s) - 1)

\* points[::-1]
Reversed(s) == [i \in 1 .. Len(s) |-> s[Len(s) + 1 - i]]

(***************************************************************************)
(* polygon_extractor.py                                                    *)
(***************************************************************************)
cross_product(o, a, b) ==
    (a[1] - o[1]) * (b[2] - o[2]) - (a[2] - o[2]) * (b[1] - o[1])

\* The distance is returned as its square, the fraction num / den: the
\* code's sqrt is monotone, so comparisons of distances are comparisons
\* of these fractions.
perpendicular_distance(point, line_start, line_end) ==
    LET x  == point[1]
        y  == point[2]
        x1 == line_start[1]
        y1 == line_start[2]
        x2 == line_end[1]
        y2 == line_end[2]
        dx == x2 - x1
        dy == y2 - y1
        dot == (x - x1) * dx + (y - y1) * dy
        len2 == dx * dx + dy * dy
        toStart == (x - x1) * (x - x1) + (y - y1) * (y - y1)
        toEnd == (x - x2) * (x - x2) + (y - y2) * (y - y2)
    IN  IF dx = 0 /\ dy = 0 THEN [num |-> toStart, den |-> 1]
        ELSE IF dot <= 0 THEN [num |-> toStart, den |-> 1]       \* t = 0
        ELSE IF dot >= len2 THEN [num |-> toEnd, den |-> 1]      \* t = 1
        ELSE [num |-> toStart * len2 - dot * dot, den |-> len2]  \* 0 < t < 1

\* dist > max_dist
DistGreater(a, b) ==
    IF a.den = b.den THEN a.num > b.num ELSE a.num * b.den > b.num * a.den

\* max_dist > tolerance, the tolerance in units (tolerance >= 0)
DistExceeds(d, tolerance) == d.num > tolerance * tolerance * d.den

\* a variant: the loop looks at no point
FarthestFrom_Blind(points, i, max_dist, max_idx) ==
    [max_dist |-> max_dist, max_idx |-> max_idx]

\* the loop of simplify_polygon: index i (1-based) onwards, with the
\* running maximum; max_idx is 1-based, 1 standing for Python's 0
RECURSIVE FarthestFrom(_, _, _, _)
FarthestFrom(points, i, max_dist, max_idx) ==
    IF i > Len(points) - 1 THEN [max_dist |-> max_dist, max_idx |-> max_idx]
    ELSE LET dist == perpendicular_distance(points[i], points[1], points[Len(points)])
         IN  IF DistGreater(dist, max_dist)
             THEN FarthestFrom(points, i + 1, dist, i)
             ELSE FarthestFrom(points, i + 1, max_dist, max_idx)

RECURSIVE simplify_polygon(_, _)

\* a variant: the split point is kept in both halves
SimplifyAround_SplitTwice(points, tolerance, far) ==
    IF DistExceeds(far.max_dist, tolerance)
    THEN simplify_polygon(SubSeq(points, 1, far.max_idx), tolerance)
         \o simplify_polygon(SubSeq(points, far.max_idx, Len(points)), tolerance)
    ELSE <<points[1], points[Len(points)]>>

\* the end of simplify_polygon, once the farthest point is known
SimplifyAround(points, tolerance, far) ==
    IF DistExceeds(far.max_dist, tolerance)
    THEN Front(simplify_polygon(SubSeq(points, 1, far.max_idx), tolerance))
         \o simplify_polygon(SubSeq(points, far.max_idx, Len(points)), tolerance)
    ELSE <<points[1], points[Len(points)]>>

\* a variant: from a tolerance of 3 on, the list is returned as it is
simplify_polygon_CoarseKeepsAll(points, tolerance) ==
    IF Len(points) <= 3 \/ tolerance >= 3 THEN points
    ELSE SimplifyAround(points, tolerance,
                        FarthestFrom(points, 2, [num |-> 0, den |-> 1], 1))

simplify_polygon(points, tolerance) ==
    IF Len(points) <= 3 THEN points
    ELSE SimplifyAround(points, tolerance,
                        FarthestFrom(points, 2, [num |-> 0, den |-> 1], 1))

\* min(points, key=lambda p: (p[1], p[0]))
LowestLeft(points) ==
    LET i == CHOOSE i \in 1 .. Len(points) :
                 \A j \in 1 .. Len(points) :
                     \/ points[i][2] < points[j][2]
                     \/ points[i][2] = points[j][2] /\ points[i][1] <= points[j][1]
    IN  points[i]

\* polar_angle(a) < polar_angle(b).  The pivot has the key -pi; every other
\* point lies at an angle in [0, pi) around the pivot, where the order of
\* the angles is the sign of the cross product.
AngleLess(start, a, b) ==
    IF a = start THEN b # start
    ELSE IF b = start THEN FALSE
    ELSE cross_product(start, a, b) > 0

\* sorted(points, key=polar_angle): a stable sort
RECURSIVE InsertByAngle(_, _, _)
InsertByAngle(start, sorted, p) ==
    IF sorted = <<>> THEN <<p>>
    ELSE IF AngleLess(start, p, sorted[Len(sorted)])
         THEN Append(InsertByAngle(start, Front(sorted), p), sorted[Len(sorted)])
         ELSE Append(sorted, p)

RECURSIVE SortByAngle(_, _)
SortByAngle(start, points) ==
    IF points = <<>> THEN <<>>
    ELSE InsertByAngle(start, SortByAngle(start, Front(points)), points[Len(points)])

\* while len(hull) >= 2 and cross_product(hull[-2], hull[-1], p) <= 0: hull.pop()
RECURSIVE PopNonLeft(_, _)
PopNonLeft(hull, p) ==
    IF Len(hull) >= 2 /\ cross_product(hull[Len(hull) - 1], hull[Len(hull)], p) <= 0
    THEN PopNonLeft(Front(hull), p)
    ELSE hull

\* the loop over sorted_points
RECURSIVE GrahamScan(_, _, _)
GrahamScan(sorted_points, i, hull) ==
    IF i > Len(sorted_points) THEN hull
    ELSE GrahamScan(sorted_points, i + 1,
                    Append(PopNonLeft(hull, sorted_points[i]), sorted_points[i]))

\* a variant: the points sorted around the pivot, with no scan
convex_hull_NoScan(points) ==
    IF Len(points) < 3 THEN points
    ELSE SortByAngle(LowestLeft(points), points)

convex_hull(points) ==
    IF Len(points) < 3 THEN points
    ELSE LET start == LowestLeft(points)
             sorted_points == SortByAngle(start, points)
         IN  GrahamScan(sorted_points, 1, <<>>)

\* the shoelace sum the code calls area
ShoelaceSum(points) ==
    LET n == Len(points)
        term(i) == LET j == (i % n) + 1
                   IN  points[i][1] * points[j][2] - points[j][1] * points[i][2]
        RECURSIVE Sum(_)
        Sum(i) == IF i > n THEN 0 ELSE term(i) + Sum(i + 1)
    IN  Sum(1)

\* a variant: a sum of zero counts as counter-clockwise
is_counter_clockwise_OrFlat(points) == ShoelaceSum(points) >= 0

is_counter_clockwise(points) == ShoelaceSum(points) > 0

(***************************************************************************)
(* reduce_vertices computes step = len(points) / max_count and             *)
(* int(i * step) in binary64.  With n > k >= 1 and q = floor(i*n/k):       *)
(*   - when k does not divide i*n, i*n/k is at least 1/k away from an      *)
(*     integer and the two roundings cannot carry it across: the index is  *)
(*     q;                                                                  *)
(*   - when k divides i*n, the index is q unless the division n/k was      *)
(*     rounded down by so much that i times the error is more than half    *)
(*     the gap between q and the double below it: then it is q - 1.        *)
(* The error of the division is r/k units in the last place of n/k, r      *)
(* being the remainder of n * 2^(52-e) by k and e = floor(log2(n/k)); it   *)
(* is rounded down when 0 < 2r < k.                                        *)
(***************************************************************************)
RECURSIVE Pow2(_)
Pow2(e) == IF e = 0 THEN 1 ELSE 2 * Pow2(e - 1)

\* 2^e modulo k
RECURSIVE Pow2Mod(_, _)
Pow2Mod(e, k) == IF e = 0 THEN 1 % k ELSE (2 * Pow2Mod(e - 1, k)) % k

RECURSIVE FloorLog2(_)
FloorLog2(q) == IF q < 2 THEN 0 ELSE 1 + FloorLog2(q \div 2)

\* floor(log2(n / k)) for n >= k, counted up from e
RECURSIVE QuotientExponent(_, _, _)
QuotientExponent(n, k, e) ==
    IF n >= k * Pow2(e + 1) THEN QuotientExponent(n, k, e + 1) ELSE e

\* the remainder r that measures the rounding error of n / k
StepRemainder(n, k, e) == (n * Pow2Mod(52 - e, k)) % k

\* whether i * step rounds to a double below the integer q = i * n / k
RoundsBelow(i, k, q, r, e) ==
    /\ r > 0
    /\ 2 * r < k
    /\ i * r * Pow2(e + (IF q = Pow2(FloorLog2(q)) THEN 2 ELSE 1)) > k * Pow2(FloorLog2(q))

\* int(i * step) for step = n / k, n > k
StepIndex(i, n, k) ==
    IF i = 0 \/ (i * n) % k # 0 THEN (i * n) \div k
    ELSE IF RoundsBelow(i, k, (i * n) \div k,
                        StepRemainder(n, k, QuotientExponent(n, k, 0)),
                        QuotientExponent(n, k, 0))
         THEN (i * n) \div k - 1
         ELSE (i * n) \div k

\* a variant: the samples are taken from the end of the list backwards
reduce_vertices_Backwards(points, max_count) ==
    IF Len(points) <= max_count THEN points
    ELSE [i \in 1 .. max_count |-> points[Len(points) - StepIndex(i - 1, Len(points), max_count)]]

\* int(i * step) with step = len(points) / max_count, for i in range(max_count)
reduce_vertices(points, max_count) ==
    IF Len(points) <= max_count THEN points
    ELSE [i \in 1 .. max_count |-> points[StepIndex(i - 1, Len(points), max_count) + 1]]

\* a variant: the rectangle at 90% of the half-dimensions
DefaultRectangle_Shrunk(width, height) ==
    LET hw == (Scale * width * 9) \div 20
        hh == (Scale * height * 9) \div 20
    IN  <<<<-hw, -hh>>, <<hw, -hh>>, <<hw, hh>>, <<-hw, hh>>>>

\* hw, hh = width / 2, height / 2
DefaultRectangle(width, height) ==
    LET hw == (Scale * width) \div 2
        hh == (Scale * height) \div 2
    IN  <<<<-hw, -hh>>, <<hw, -hh>>, <<hw, hh>>, <<-hw, hh>>>>

\* a variant: the outline shifted by the whole width and height
Centered_ByWidth(outline, width, height) ==
    [i \in 1 .. Len(outline) |->
        <<Scale * outline[i][1] - Scale * width,
          Scale * outline[i][2] - Scale * height>>]

\* [(x - center_x, y - center_y) for x, y in outline]
Centered(outline, width, height) ==
    [i \in 1 .. Len(outline) |->
        <<Scale * outline[i][1] - (Scale * width) \div 2,
          Scale * outline[i][2] - (Scale * height) \div 2>>]

\* lines 55-59: the winding step; calls names the stages run so far
Wound(points, calls) ==
    [polygon |-> IF is_counter_clockwise(points) THEN points ELSE Reversed(points),
     calls |-> Append(calls, "is_counter_clockwise")]

\* lines 51-59: the vertex budget, then the winding step
Budgeted(convex, max_count) ==
    IF Len(convex) > max_count
    THEN Wound(reduce_vertices(convex, max_count),
               <<"simplify_polygon", "convex_hull", "reduce_vertices">>)
    ELSE Wound(convex, <<"simplify_polygon", "convex_hull">>)

\* a variant: the call looks into Animal._polygon_cache
ExtractRun_ReadsCache(surf, tolerance, max_count) ==
    IF DOMAIN polygon_cache # {}
    THEN [polygon |-> polygon_cache[CHOOSE n \in DOMAIN polygon_cache : TRUE], calls |-> <<>>]
    ELSE IF Len(surf.outline) < 3
         THEN [polygon |-> DefaultRectangle(surf.width, surf.height), calls |-> <<>>]
         ELSE Budgeted(convex_hull(simplify_polygon(
                           Centered(surf.outline, surf.width, surf.height), Scale * tolerance)),
                       max_count)

\* a variant: the guard lets a two-point trace through
ExtractRun_GuardTwo(surf, tolerance, max_count) ==
    IF Len(surf.outline) < 2
    THEN [polygon |-> DefaultRectangle(surf.width, surf.height), calls |-> <<>>]
    ELSE Budgeted(convex_hull(simplify_polygon(
                      Centered(surf.outline, surf.width, surf.height), Scale * tolerance)),
                  max_count)

\* The call with the stages it runs: surf is the surface with the boundary
\* trace mask.outline() gives for it, tolerance is in pixels.
ExtractRun(surf, tolerance, max_count) ==
    IF Len(surf.outline) < 3
    THEN [polygon |-> DefaultRectangle(surf.width, surf.height), calls |-> <<>>]
    ELSE Budgeted(convex_hull(simplify_polygon(
                      Centered(surf.outline, surf.width, surf.height), Scale * tolerance)),
                  max_count)

extract_polygon_from_surface(surf, tolerance, max_count) ==
    ExtractRun(surf, tolerance, max_count).polygon

(***************************************************************************)
(* animal.py: images, the polygon cache, Animal                            *)
(***************************************************************************)
\* Python's None, where an animal is expected
None == [image_name |-> "None"]

\* constants.ANIMAL_IMAGES: the sprites of the game
ANIMAL_IMAGES == {"bear.png", "ghost.png"}

\* The scaled image _load_image returns for a name, with the boundary trace
\* of its opaque region: a small opaque block, and an all-transparent image.
LoadedImage(image_name) ==
    IF image_name = "bear.png"
    THEN [width |-> 8, height |-> 8,
          outline |-> <<<<0, 0>>, <<6, 0>>, <<6, 6>>, <<0, 6>>>>]
    ELSE TransparentSurface

\* the values Animal._get_polygon passes to the pipeline
GetPolygonTolerance == 3
GetPolygonMaxVertices == 12

\* get_fallback_polygon: cos and sin of 2 * pi * i / 8 in thousandths
\* (cos(pi / 2), of the order of 1e-17 in floating point, is 0 here)
Cos8 == <<1000, 707, 0, -707, -1000, -707, 0, 707>>
Sin8 == <<0, 707, 1000, 707, 0, -707, -1000, -707>>

\* a product of a length and a factor in thousandths, cut to whole units
Thousandths(length, factor) ==
    IF factor >= 0 THEN (length * factor) \div 1000 ELSE -((length * (-factor)) \div 1000)

get_fallback_polygon(width, height) ==
    LET num_points == 8
        hw == (Scale * width * 9) \div 20
        hh == (Scale * height * 9) \div 20
    IN  [i \in 1 .. num_points |-> <<Thousandths(hw, Cos8[i]), Thousandths(hh, Sin8[i])>>]

\* a variant: storing an entry evicts the others
Stored_Evicting(cache, image_name, polygon) ==
    [polygon |-> polygon,
     cache |-> [n \in {image_name} |-> polygon],
     extracted |-> TRUE]

\* lines 106-107 of Animal._get_polygon: the polygon is stored and returned
Stored(cache, image_name, polygon) ==
    [polygon |-> polygon,
     cache |-> [n \in DOMAIN cache \cup {image_name} |->
                   IF n = image_name THEN polygon ELSE cache[n]],
     extracted |-> TRUE]

\* a variant: the cache is not looked up
get_polygon_NoLookup(cache, image_name, raises) ==
    IF raises
    THEN Stored(cache, image_name,
                get_fallback_polygon(LoadedImage(image_name).width,
                                     LoadedImage(image_name).height))
    ELSE Stored(cache, image_name,
                extract_polygon_from_surface(LoadedImage(image_name),
                                             GetPolygonTolerance, GetPolygonMaxVertices))

\* a variant: no except clause, the exception leaves the method and nothing
\* is stored or returned
get_polygon_NoExcept(cache, image_name, raises) ==
    IF image_name \in DOMAIN cache
    THEN [polygon |-> cache[image_name], cache |-> cache, extracted |-> FALSE]
    ELSE IF raises
         THEN [polygon |-> <<>>, cache |-> cache, extracted |-> TRUE]
         ELSE Stored(cache, image_name,
                     extract_polygon_from_surface(LoadedImage(image_name),
                                                  GetPolygonTolerance, GetPolygonMaxVertices))

\* Animal._get_polygon on the cache `cache`; `raises` says whether
\* extract_polygon_from_surface raises for this call.  Gives the polygon
\* returned, the cache afterwards and whether the pipeline was run.
get_polygon(cache, image_name, raises) ==
    IF image_name \in DOMAIN cache
    THEN [polygon |-> cache[image_name], cache |-> cache, extracted |-> FALSE]
    ELSE IF raises
         THEN Stored(cache, image_name,
                     get_fallback_polygon(LoadedImage(image_name).width,
                                          LoadedImage(image_name).height))
         ELSE Stored(cache, image_name,
                     extract_polygon_from_surface(LoadedImage(image_name),
                                                  GetPolygonTolerance, GetPolygonMaxVertices))

\* the effect of a call r of Animal._get_polygon on the cache, with the
\* history of the calls
Called(r, image_name, raises) ==
    /\ polygon_cache' = r.cache
    /\ extract_runs' = IF r.extracted
                       THEN [extract_runs EXCEPT ![image_name] = @ + 1]
                       ELSE extract_runs
    /\ returned' = [returned EXCEPT ![image_name] = @ \cup {r.polygon}]
    /\ raised' = IF r.extracted /\ raises THEN raised \cup {image_name} ELSE raised

CacheInit ==
    /\ polygon_cache = <<>>
    /\ image_cache = {}
    /\ extract_runs = [n \in ANIMAL_IMAGES |-> 0]
    /\ returned = [n \in ANIMAL_IMAGES |-> {}]
    /\ raised = {}

\* AnimalState
CONTROLLED == "controlled"
FALLING == "falling"
SETTLED == "settled"

\* hw = self.width / 2 * 0.9 ; hh = self.height / 2 * 0.9: the box
\* Animal._create_physics_body falls back to
FallbackBox(width, height) ==
    LET hw == (Scale * width * 9) \div 20
        hh == (Scale * height * 9) \div 20
    IN  <<<<-hw, -hh>>, <<hw, -hh>>, <<hw, hh>>, <<-hw, hh>>>>

\* Animal.__init__ and _create_physics_body, given the polygon _get_polygon
\* returned
NewAnimal(image_name, polygon, x, y, is_static) ==
    [image_name |-> image_name,
     state |-> IF is_static THEN CONTROLLED ELSE FALLING,
     width |-> LoadedImage(image_name).width,
     height |-> LoadedImage(image_name).height,
     polygon |-> polygon,
     x |-> x,
     y |-> y,
     has_body |-> TRUE,
     is_static |-> is_static,
     settle_timer |-> 0]

\* Animal.drop, pymunk accepting the polygon
animal_drop(a) ==
    IF a.state # CONTROLLED THEN a
    ELSE [a EXCEPT !.is_static = FALSE, !.state = FALLING]

\* Animal.move
animal_move(a, dx) ==
    IF a.state = CONTROLLED /\ a.has_body THEN [a EXCEPT !.x = @ + dx] ELSE a

\* the time an animal has to stay slow before it counts as settled (0.3 s),
\* in tenths of a second
SettleTenths == 3

\* a variant: update without its early returns for CONTROLLED and SETTLED
animal_update_AnyState(a, dt, slow) ==
    IF a.has_body
    THEN IF slow
         THEN IF a.settle_timer + dt > SettleTenths
              THEN [a EXCEPT !.settle_timer = @ + dt, !.state = SETTLED]
              ELSE [a EXCEPT !.settle_timer = @ + dt]
         ELSE [a EXCEPT !.settle_timer = 0]
    ELSE a

\* Animal.update: dt in tenths of a second, slow says whether the body's
\* speed is below SETTLE_VELOCITY_THRESHOLD
animal_update(a, dt, slow) ==
    IF a.state = CONTROLLED THEN a
    ELSE IF a.state = SETTLED THEN a
    ELSE IF a.has_body
         THEN IF slow
              THEN IF a.settle_timer + dt > SettleTenths
                   THEN [a EXCEPT !.settle_timer = @ + dt, !.state = SETTLED]
                   ELSE [a EXCEPT !.settle_timer = @ + dt]
              ELSE [a EXCEPT !.settle_timer = 0]
         ELSE a

\* Animal.position
animal_position(a) == IF a.has_body THEN <<a.x, a.y>> ELSE <<0, 0>>

\* Animal.y
animal_y(a) == IF a.has_body THEN a.y ELSE 0

(***************************************************************************)
(* animal.py: an Animal with the body and the shape pymunk gives it.       *)
(* pymunk is outside the sources: each of its calls that takes the polygon *)
(* either accepts it or raises.                                            *)
(***************************************************************************)
\* the pymunk calls of _create_physics_body that take self.polygon
PhysicsCalls == {"moment_for_poly", "Poly"}

\* no Animal built yet
NoSubject == [animal |-> None, body |-> "none", shape |-> <<>>, rejected |-> FALSE]

BodyInit ==
    /\ subject = NoSubject
    /\ space = {}
    /\ escaped = "none"

\* Animal._create_physics_body on the Animal s and the space sp; rejects are
\* the pymunk calls that raise on the polygon
create_physics_body(s, sp, x, y, is_static, rejects) ==
    IF ~is_static /\ "moment_for_poly" \in rejects
    THEN [subject |-> s, space |-> sp, escapes |-> TRUE]
    ELSE [subject |->
              [animal |-> [s.animal EXCEPT !.x = x, !.y = y, !.has_body = TRUE],
               body |-> IF is_static THEN "kinematic" ELSE "dynamic",
               shape |-> IF "Poly" \in rejects
                         THEN FallbackBox(s.animal.width, s.animal.height)
                         ELSE s.animal.polygon,
               rejected |-> "Poly" \in rejects],
          space |-> sp \cup {[body |-> IF is_static THEN "kinematic" ELSE "dynamic",
                              shape |-> IF "Poly" \in rejects
                                        THEN FallbackBox(s.animal.width, s.animal.height)
                                        ELSE s.animal.polygon]},
          escapes |-> FALSE]

\* Animal.__init__ up to line 66: the fields before the body is made
Fields(image_name, polygon, is_static) ==
    [animal |-> [NewAnimal(image_name, polygon, 0, 0, is_static) EXCEPT !.has_body = FALSE],
     body |-> "none",
     shape |-> <<>>,
     rejected |-> FALSE]

\* PhysicsManager.remove_body
remove_body(sp, body, shape) == sp \ {[body |-> body, shape |-> shape]}

\* lines 153-154 of Animal.drop, reached when _create_physics_body returned
Fallen(made) ==
    IF made.escapes THEN made
    ELSE [made EXCEPT !.subject.animal = animal_drop(made.subject.animal)]

\* Animal.drop with its calls of remove_body and _create_physics_body
drop(s, sp, rejects) ==
    IF s.animal.state # CONTROLLED
    THEN [subject |-> s, space |-> sp, escapes |-> FALSE]
    ELSE Fallen(create_physics_body(s, remove_body(sp, s.body, s.shape),
                                    s.animal.x, s.animal.y, FALSE, rejects))

(***************************************************************************)
(* game_manager.py, driven as main.py drives it                            *)
(***************************************************************************)
\* GameState
MENU == "menu"
PLAYING == "playing"
GAME_OVER == "game_over"

\* constants.py (imported at game_manager.py:10-15, not among the sources):
\* the world, in pixels, taken small
SCREEN_WIDTH == 120
MOVE_SPEED == 120
GAME_OVER_X_MARGIN == 30
SPAWN_Y == 60
PLATFORM_Y == 240
GAME_OVER_Y == 270

\* _spawn_next_animal: the tower height above which the spawn point rises,
\* and the room left above the tower
TowerSpawnThreshold == 100
SpawnClearance == 150

\* bounds of the model: animals dropped in one game, and key presses the
\* controlled animal is moved away from the spawn column
MaxAnimals == 1
MaxMoves == 1

\* the heights the physics engine leaves a dynamic body at: on another
\* animal, on the platform, below the game-over line
PhysicsY == {120, 240, 300}

\* frame times, in tenths of a second
FrameTimes == {2}

Max(a, b) == IF a >= b THEN a ELSE b
Min(a, b) == IF a <= b THEN a ELSE b

GameInit ==
    /\ gm_state = MENU
    /\ animals = <<>>
    /\ current_animal = None
    /\ next_animal_name = ""
    /\ score = 0
    /\ max_height = 0
    /\ tower_height = 0

\* Animal(animal_name, physics_manager, spawn_x, spawn_y, is_static=True),
\* r being the call of _get_polygon the constructor makes
Constructed(r, animal_name, raises, spawn_x, spawn_y) ==
    /\ Called(r, animal_name, raises)
    /\ image_cache' = image_cache \cup {animal_name}
    /\ current_animal' = NewAnimal(animal_name, r.polygon, spawn_x, spawn_y, TRUE)

\* GameManager._spawn_next_animal, for the tower height at the time of the
\* call; upcoming is the name random.choice draws
SpawnNextAnimal(animal_name, upcoming, raises, tower) ==
    /\ raises => animal_name \notin DOMAIN polygon_cache
    /\ next_animal_name' = upcoming
    /\ Constructed(get_polygon(polygon_cache, animal_name, raises), animal_name, raises,
                   SCREEN_WIDTH \div 2,
                   IF tower > TowerSpawnThreshold
                   THEN Min(SPAWN_Y, PLATFORM_Y - tower - SpawnClearance)
                   ELSE SPAWN_Y)

\* GameManager.start_game, called from the title and the game-over screens
StartGame ==
    /\ escaped = "none"
    /\ gm_state \in {MENU, GAME_OVER}
    /\ \E animal_name \in ANIMAL_IMAGES, upcoming \in ANIMAL_IMAGES, raises \in BOOLEAN :
           SpawnNextAnimal(animal_name, upcoming, raises, 0)
    /\ animals' = <<>>
    /\ score' = 0
    /\ max_height' = 0
    /\ tower_height' = 0
    /\ gm_state' = PLAYING
    /\ UNCHANGED <<pipelineVars, threads, bodyVars, runs>>

\* GameManager.handle_input with _drop_current_animal; rejects says that
\* pymunk.moment_for_poly raises in the drop, which nothing catches
HandleInput ==
    /\ escaped = "none"
    /\ \E left \in BOOLEAN, right \in BOOLEAN, key_down_event \in {"none", "space", "down"},
          rejects \in BOOLEAN :
           IF gm_state # PLAYING \/ current_animal = None
           THEN UNCHANGED <<animals, current_animal, escaped>>
           ELSE LET a1 == IF left THEN animal_move(current_animal, -MOVE_SPEED)
                          ELSE current_animal
                    a2 == IF right THEN animal_move(a1, MOVE_SPEED) ELSE a1
                    drops == key_down_event \in {"space", "down"} /\ a2.state = CONTROLLED
                IN  /\ a2.x >= SCREEN_WIDTH \div 2 - MaxMoves * MOVE_SPEED
                    /\ a2.x <= SCREEN_WIDTH \div 2 + MaxMoves * MOVE_SPEED
                    /\ drops => Len(animals) < MaxAnimals
                    /\ animals' = IF drops /\ ~rejects THEN Append(animals, animal_drop(a2))
                                  ELSE animals
                    /\ current_animal' = IF drops /\ ~rejects THEN None ELSE a2
                    /\ escaped' = IF drops /\ rejects THEN "drop" ELSE "none"
    /\ UNCHANGED <<gm_state, next_animal_name, score, max_height, tower_height>>
    /\ UNCHANGED <<pipelineVars, cacheVars, threads, subject, space, runs>>

\* PhysicsManager.step: where the engine leaves the dynamic body of a
\* dropped animal
PhysicsMoves(a) ==
    {[a EXCEPT !.x = nx, !.y = ny] :
        nx \in {x \in {a.x - MOVE_SPEED, a.x, a.x + MOVE_SPEED} :
                   /\ x >= SCREEN_WIDTH \div 2 - MaxMoves * MOVE_SPEED
                   /\ x <= SCREEN_WIDTH \div 2 + MaxMoves * MOVE_SPEED},
        ny \in {y \in PhysicsY : y >= a.y}}

\* the loop of GameManager.update over self.animals, from index i on
RECURSIVE UpdateLoop(_, _, _, _, _, _)
UpdateLoop(list, i, dt, slow, settled_count, animals_to_remove) ==
    IF i > Len(list)
    THEN [animals |-> list, settled_count |-> settled_count,
          animals_to_remove |-> animals_to_remove, game_over |-> FALSE]
    ELSE LET animal == animal_update(list[i], dt, slow[i])
             updated == [list EXCEPT ![i] = animal]
             count == IF animal.state = SETTLED THEN settled_count + 1 ELSE settled_count
             pos == animal_position(animal)
         IN  IF pos[2] > GAME_OVER_Y
             THEN [animals |-> updated, settled_count |-> count,
                   animals_to_remove |-> animals_to_remove, game_over |-> TRUE]
             ELSE UpdateLoop(updated, i + 1, dt, slow, count,
                             IF pos[1] < -GAME_OVER_X_MARGIN
                                \/ pos[1] > SCREEN_WIDTH + GAME_OVER_X_MARGIN
                             THEN animals_to_remove \cup {i}
                             ELSE animals_to_remove)

\* for animal in animals_to_remove: animal.cleanup(); self.animals.remove(animal)
RECURSIVE Without(_, _, _)
Without(list, i, removed) ==
    IF i > Len(list) THEN <<>>
    ELSE (IF i \in removed THEN <<>> ELSE <<list[i]>>) \o Without(list, i + 1, removed)

\* the minimum of _calculate_tower_height, from index i on
RECURSIVE MinTop(_, _, _)
MinTop(list, i, min_y) ==
    IF i > Len(list) THEN min_y
    ELSE LET y == animal_y(list[i]) - list[i].height \div 2
         IN  MinTop(list, i + 1,
                    IF list[i].state = SETTLED /\ y < min_y THEN y ELSE min_y)

\* GameManager._calculate_tower_height: the new tower_height and max_height
calculate_tower_height(list, old_max) ==
    IF list = <<>> THEN [tower_height |-> 0, max_height |-> old_max]
    ELSE LET tower == Max(0, PLATFORM_Y - MinTop(list, 1, PLATFORM_Y))
         IN  [tower_height |-> tower, max_height |-> Max(old_max, tower)]

\* a variant: the next animal is spawned without waiting for the dropped
\* ones to settle
Scored_SpawnsAtOnce(settled_count, kept, heights) ==
    /\ animals' = kept
    /\ score' = settled_count
    /\ tower_height' = heights.tower_height
    /\ max_height' = heights.max_height
    /\ gm_state' = gm_state
    /\ IF current_animal = None
       THEN \E upcoming \in ANIMAL_IMAGES, raises \in BOOLEAN :
                SpawnNextAnimal(next_animal_name, upcoming, raises, heights.tower_height)
       ELSE UNCHANGED <<current_animal, next_animal_name, cacheVars>>

\* GameManager.update from the score on (lines 189-200), kept being the
\* animals left and heights what _calculate_tower_height computes for them
Scored(settled_count, kept, heights) ==
    /\ animals' = kept
    /\ score' = settled_count
    /\ tower_height' = heights.tower_height
    /\ max_height' = heights.max_height
    /\ gm_state' = gm_state
    /\ IF /\ current_animal = None
          /\ \/ \A i \in 1 .. Len(kept) : kept[i].state = SETTLED
             \/ Len(kept) = 0
       THEN \E upcoming \in ANIMAL_IMAGES, raises \in BOOLEAN :
                SpawnNextAnimal(next_animal_name, upcoming, raises, heights.tower_height)
       ELSE UNCHANGED <<current_animal, next_animal_name, cacheVars>>

\* GameManager.update after the removal of the animals that left the screen
Removed(settled_count, kept) ==
    Scored(settled_count, kept, calculate_tower_height(kept, max_height))

\* a variant: a lost game goes back to the title screen
Looped_ToMenu(loop) ==
    IF loop.game_over
    THEN /\ animals' = loop.animals
         /\ gm_state' = MENU
         /\ UNCHANGED <<current_animal, next_animal_name, score, max_height, tower_height,
                        cacheVars>>
    ELSE Removed(loop.settled_count, Without(loop.animals, 1, loop.animals_to_remove))

\* GameManager.update after its loop over the animals
Looped(loop) ==
    IF loop.game_over
    THEN /\ animals' = loop.animals
         /\ gm_state' = GAME_OVER
         /\ UNCHANGED <<current_animal, next_animal_name, score, max_height, tower_height,
                        cacheVars>>
    ELSE Removed(loop.settled_count, Without(loop.animals, 1, loop.animals_to_remove))

\* GameManager.update
Update ==
    /\ escaped = "none"
    /\ IF gm_state # PLAYING
       THEN UNCHANGED vars
       ELSE \E dt \in FrameTimes,
               moved \in [1 .. Len(animals) ->
                            UNION {PhysicsMoves(animals[i]) : i \in 1 .. Len(animals)}],
               slow \in [1 .. Len(animals) -> BOOLEAN] :
              /\ \A i \in 1 .. Len(animals) : moved[i] \in PhysicsMoves(animals[i])
              /\ \A i \in 1 .. Len(animals) : animals[i].state = SETTLED => slow[i]
              /\ Looped(UpdateLoop(moved, 1, dt, slow, 0, {}))
              /\ UNCHANGED <<pipelineVars, threads, bodyVars, runs>>

\* Animal._get_polygon called on its own
GetPolygon ==
    /\ escaped = "none"
    /\ \E image_name \in ANIMAL_IMAGES, raises \in BOOLEAN :
           /\ raises => image_name \notin DOMAIN polygon_cache
           /\ Called(get_polygon(polygon_cache, image_name, raises), image_name, raises)
           /\ image_cache' = IF image_name \in DOMAIN polygon_cache
                             THEN image_cache
                             ELSE image_cache \cup {image_name}
    /\ UNCHANGED <<pipelineVars, gameVars, threads, bodyVars, runs>>

PipelineIdle ==
    /\ surface = TransparentSurface
    /\ simplify_tolerance = 0
    /\ max_vertices = 0
    /\ result = NoResult
    /\ pc = "idle"

Init ==
    /\ PipelineIdle
    /\ CacheInit
    /\ GameInit
    /\ threads = <<>>
    /\ BodyInit
    /\ runs = <<>>

Next ==
    \/ StartGame
    \/ HandleInput
    \/ Update
    \/ GetPolygon

Spec == Init /\ [][Next]_vars

(***************************************************************************)
(* Animal._get_polygon called from two threads: each dictionary operation  *)
(* is one step, the steps of the two calls interleave                      *)
(***************************************************************************)
Threads == {"t1", "t2"}

Idle == [pc |-> "idle", image_name |-> "", polygon |-> <<>>]

InitThreads ==
    /\ PipelineIdle
    /\ CacheInit
    /\ GameInit
    /\ threads = [t \in Threads |-> Idle]
    /\ BodyInit
    /\ runs = <<>>

\* cls._get_polygon(image_name) is entered
ThreadCall(t) ==
    /\ threads[t].pc = "idle"
    /\ \E image_name \in ANIMAL_IMAGES :
           threads' = [threads EXCEPT ![t] = [Idle EXCEPT !.pc = "lookup",
                                                       !.image_name = image_name]]
    /\ UNCHANGED <<pipelineVars, cacheVars, gameVars, bodyVars, runs>>

\* line 93: if image_name in cls._polygon_cache
ThreadLookup(t) ==
    /\ threads[t].pc = "lookup"
    /\ threads' = [threads EXCEPT ![t].pc =
                      IF threads[t].image_name \in DOMAIN polygon_cache
                      THEN "hit" ELSE "miss"]
    /\ UNCHANGED <<pipelineVars, cacheVars, gameVars, bodyVars, runs>>

\* line 94: return cls._polygon_cache[image_name]
ThreadHit(t) ==
    /\ threads[t].pc = "hit"
    /\ returned' = [returned EXCEPT ![threads[t].image_name] =
                       @ \cup {polygon_cache[threads[t].image_name]}]
    /\ threads' = [threads EXCEPT ![t] = Idle]
    /\ UNCHANGED <<pipelineVars, polygon_cache, image_cache, extract_runs, raised, gameVars, bodyVars, runs>>

\* lines 96-104: the image is loaded and the pipeline run, or its exception
\* caught and the fallback computed
ThreadExtract(t) ==
    /\ threads[t].pc = "miss"
    /\ \E raises \in BOOLEAN :
           /\ threads' = [threads EXCEPT
                  ![t].pc = "insert",
                  ![t].polygon = get_polygon(<<>>, threads[t].image_name, raises).polygon]
           /\ raised' = IF raises THEN raised \cup {threads[t].image_name} ELSE raised
    /\ extract_runs' = [extract_runs EXCEPT ![threads[t].image_name] = @ + 1]
    /\ image_cache' = image_cache \cup {threads[t].image_name}
    /\ UNCHANGED <<pipelineVars, polygon_cache, returned, gameVars, bodyVars, runs>>

\* line 106: cls._polygon_cache[image_name] = polygon
ThreadInsert(t) ==
    /\ threads[t].pc = "insert"
    /\ polygon_cache' = Stored(polygon_cache, threads[t].image_name, threads[t].polygon).cache
    /\ threads' = [threads EXCEPT ![t].pc = "return"]
    /\ UNCHANGED <<pipelineVars, image_cache, extract_runs, returned, raised, gameVars, bodyVars, runs>>

\* line 107: return polygon
ThreadReturn(t) ==
    /\ threads[t].pc = "return"
    /\ returned' = [returned EXCEPT ![threads[t].image_name] = @ \cup {threads[t].polygon}]
    /\ threads' = [threads EXCEPT ![t] = Idle]
    /\ UNCHANGED <<pipelineVars, polygon_cache, image_cache, extract_runs, raised, gameVars, bodyVars, runs>>

NextThreads ==
    \E t \in Threads :
        \/ ThreadCall(t)
        \/ ThreadLookup(t)
        \/ ThreadHit(t)
        \/ ThreadExtract(t)
        \/ ThreadInsert(t)
        \/ ThreadReturn(t)

SpecThreads == InitThreads /\ [][NextThreads]_vars

(***************************************************************************)
(* One Animal from its construction to its cleanup, with its body          *)
(***************************************************************************)
\* the outcome of a constructor or drop call: the object, the space, and
\* the method the exception left if one did
Outcome(made, method) ==
    /\ subject' = made.subject
    /\ space' = made.space
    /\ escaped' = IF made.escapes THEN method ELSE "none"

\* Animal(image_name, physics_manager, x, y, is_static)
BodyConstruct ==
    /\ escaped = "none"
    /\ subject = NoSubject
    /\ \E image_name \in ANIMAL_IMAGES, raises \in BOOLEAN, is_static \in BOOLEAN,
          rejects \in SUBSET PhysicsCalls :
           /\ raises => image_name \notin DOMAIN polygon_cache
           /\ Called(get_polygon(polygon_cache, image_name, raises), image_name, raises)
           /\ image_cache' = image_cache \cup {image_name}
           /\ Outcome(create_physics_body(
                          Fields(image_name,
                                 get_polygon(polygon_cache, image_name, raises).polygon,
                                 is_static),
                          space, SCREEN_WIDTH \div 2, SPAWN_Y, is_static, rejects),
                      "__init__")
    /\ UNCHANGED <<pipelineVars, gameVars, threads, runs>>

\* animal.drop()
BodyDrop ==
    /\ escaped = "none"
    /\ subject # NoSubject
    /\ \E rejects \in SUBSET PhysicsCalls : Outcome(drop(subject, space, rejects), "drop")
    /\ UNCHANGED <<pipelineVars, cacheVars, gameVars, threads, runs>>

\* animal.move(dx)
BodyMove ==
    /\ escaped = "none"
    /\ subject # NoSubject
    /\ \E dx \in {-MOVE_SPEED, MOVE_SPEED} :
           /\ animal_move(subject.animal, dx).x >= SCREEN_WIDTH \div 2 - MaxMoves * MOVE_SPEED
           /\ animal_move(subject.animal, dx).x <= SCREEN_WIDTH \div 2 + MaxMoves * MOVE_SPEED
           /\ subject' = [subject EXCEPT !.animal = animal_move(subject.animal, dx)]
    /\ UNCHANGED <<space, escaped, pipelineVars, cacheVars, gameVars, threads, runs>>

\* animal.update(dt)
BodyUpdate ==
    /\ escaped = "none"
    /\ subject # NoSubject
    /\ \E dt \in FrameTimes, slow \in BOOLEAN :
           subject' = [subject EXCEPT !.animal = animal_update(subject.animal, dt, slow)]
    /\ UNCHANGED <<space, escaped, pipelineVars, cacheVars, gameVars, threads, runs>>

\* animal.cleanup(), after which the owner forgets the object
BodyCleanup ==
    /\ escaped = "none"
    /\ subject # NoSubject
    /\ space' = remove_body(space, subject.body, subject.shape)
    /\ subject' = NoSubject
    /\ UNCHANGED <<escaped, pipelineVars, cacheVars, gameVars, threads, runs>>

InitBody ==
    /\ PipelineIdle
    /\ CacheInit
    /\ GameInit
    /\ threads = <<>>
    /\ BodyInit
    /\ runs = <<>>

NextBody ==
    \/ BodyConstruct
    \/ BodyDrop
    \/ BodyMove
    \/ BodyUpdate
    \/ BodyCleanup

SpecBody == InitBody /\ [][NextBody]_vars

(***************************************************************************)
(* The pipeline as a pure function: every input, then the call             *)
(***************************************************************************)
InitExtract ==
    /\ \/ \E size \in Sizes, n \in 0 .. MaxTrace :
              \E outline \in [1 .. n -> Pixels(size)] :
                  surface = [width |-> size[1], height |-> size[2], outline |-> outline]
       \/ surface = TransparentSurface
    /\ simplify_tolerance = 0
    /\ max_vertices = 0
    /\ result = NoResult
    /\ pc = "ready"
    /\ CacheInit
    /\ GameInit
    /\ threads = <<>>
    /\ BodyInit
    /\ runs = <<>>

\* extract_polygon_from_surface(surface, simplify_tolerance, max_vertices)
Extract ==
    /\ pc = "ready"
    /\ \E tolerance \in Tolerances, max_count \in VertexBudgets :
           /\ simplify_tolerance' = tolerance
           /\ max_vertices' = max_count
           /\ result' = ExtractRun(surface, tolerance, max_count)
    /\ pc' = "done"
    /\ UNCHANGED <<surface, cacheVars, gameVars, threads, bodyVars, runs>>

NextExtract == Extract

SpecExtract == InitExtract /\ [][NextExtract]_vars

(***************************************************************************)
(* The stages of the pipeline one by one, each a pure function of a point  *)
(* list: a list is drawn, then a stage is applied to it.  The short lists   *)
(* ("ready") go through every stage; the long ones ("long") through those  *)
(* that work on indices, turns and the shoelace sum.                       *)
(***************************************************************************)
\* the longest list simplify_polygon is given; the lists longer than
\* MaxTrace are drawn from the pixels of a 3 x 2 image
MaxList == 5

\* the longest list reduce_vertices is given
MaxRamp == 30

\* n points in convex position, counter-clockwise: (0,0), (1,0), (2,1), (3,3), ...
Ramp(n) == [i \in 1 .. n |-> <<i - 1, ((i - 1) * (i - 2)) \div 2>>]

InitStages ==
    /\ \/ /\ \E size \in Sizes, n \in 0 .. MaxTrace :
                 \E outline \in [1 .. n -> Pixels(size)] :
                     surface = [width |-> size[1], height |-> size[2], outline |-> outline]
          /\ pc = "ready"
       \/ /\ \E n \in MaxTrace + 1 .. MaxList :
                 \E outline \in [1 .. n -> Pixels(<<3, 2>>)] :
                     surface = [width |-> 3, height |-> 2, outline |-> outline]
          /\ pc = "ready"
       \/ /\ \E n \in 1 .. MaxRamp :
                 surface = [width |-> n, height |-> Ramp(n)[n][2] + 1, outline |-> Ramp(n)]
          /\ pc = "long"
    /\ simplify_tolerance = 0
    /\ max_vertices = 0
    /\ result = NoResult
    /\ CacheInit
    /\ GameInit
    /\ threads = <<>>
    /\ BodyInit
    /\ runs = <<>>

\* simplify_polygon(points, tolerance)
Simplify ==
    /\ pc = "ready"
    /\ \E tolerance \in Tolerances :
           /\ simplify_tolerance' = tolerance
           /\ result' = [polygon |-> simplify_polygon(surface.outline, tolerance),
                         calls |-> <<"simplify_polygon">>]
    /\ pc' = "simplify_polygon"
    /\ UNCHANGED <<surface, max_vertices, cacheVars, gameVars, threads, bodyVars, runs>>

\* convex_hull(points)
Hull ==
    /\ pc \in {"ready", "long"}
    /\ result' = [polygon |-> convex_hull(surface.outline), calls |-> <<"convex_hull">>]
    /\ pc' = "convex_hull"
    /\ UNCHANGED <<surface, simplify_tolerance, max_vertices, cacheVars, gameVars, threads,
                   bodyVars, runs>>

\* reduce_vertices(points, max_count), on the list drawn or on the hull
\* convex_hull returned for it
Reduce ==
    /\ pc \in {"ready", "long", "convex_hull"}
    /\ \E max_count \in 1 .. Len(surface.outline) + 1 :
           /\ max_vertices' = max_count
           /\ result' = [polygon |-> reduce_vertices(IF pc = "convex_hull" THEN result.polygon
                                                     ELSE surface.outline, max_count),
                         calls |-> Append(result.calls, "reduce_vertices")]
    /\ pc' = "reduce_vertices"
    /\ UNCHANGED <<surface, simplify_tolerance, cacheVars, gameVars, threads, bodyVars, runs>>

\* the winding step, on the list drawn and then once more on its result
Wind ==
    /\ \/ pc \in {"ready", "long"}
       \/ pc = "winding" /\ Len(result.calls) = 1
    /\ result' = Wound(IF pc = "winding" THEN result.polygon ELSE surface.outline, result.calls)
    /\ pc' = "winding"
    /\ UNCHANGED <<surface, simplify_tolerance, max_vertices, cacheVars, gameVars, threads,
                   bodyVars, runs>>

NextStages ==
    \/ Simplify
    \/ Hull
    \/ Reduce
    \/ Wind

SpecStages == InitStages /\ [][NextStages]_vars

(***************************************************************************)
(* The pipeline called twice on one surface, with calls of                 *)
(* Animal._get_polygon before, between and after                           *)
(***************************************************************************)
Corners(size) == {0, size[1] - 1} \X {0, size[2] - 1}

InitRepeat ==
    /\ \/ \E size \in Sizes :
              \E outline \in [1 .. 3 -> Corners(size)] :
                  surface = [width |-> size[1], height |-> size[2], outline |-> outline]
       \/ surface = TransparentSurface
    /\ simplify_tolerance = 0
    /\ max_vertices = 0
    /\ result = NoResult
    /\ pc = "ready"
    /\ CacheInit
    /\ GameInit
    /\ threads = <<>>
    /\ BodyInit
    /\ runs = <<>>

\* extract_polygon_from_surface(surface, simplify_tolerance, max_vertices),
\* recorded with the cache it ran beside
ExtractAgain ==
    /\ Len(runs) < 2
    /\ \E tolerance \in Tolerances, max_count \in VertexBudgets :
           /\ simplify_tolerance' = tolerance
           /\ max_vertices' = max_count
           /\ result' = ExtractRun(surface, tolerance, max_count)
           /\ runs' = Append(runs, [tolerance |-> tolerance,
                                    max_count |-> max_count,
                                    cached |-> DOMAIN polygon_cache,
                                    polygon |-> extract_polygon_from_surface(
                                                    surface, tolerance, max_count)])
    /\ pc' = "done"
    /\ UNCHANGED <<surface, cacheVars, gameVars, threads, bodyVars>>

NextRepeat ==
    \/ ExtractAgain
    \/ GetPolygon

SpecRepeat == InitRepeat /\ [][NextRepeat]_vars

(***************************************************************************)
(* Claims about the pipeline (SpecExtract)                                 *)
(***************************************************************************)
Returned == pc = "done"
Degenerate == Len(surface.outline) < 3
Poly == result.polygon

\* indices i, i+1, i+2 of a closed loop of n points
Next1(i, n) == (i % n) + 1
Next2(i, n) == ((i + 1) % n) + 1

\* C1: whatever the trace, the tolerance and MaxVertices = k >= 1, the
\* returned polygon has at most k vertices (the default rectangle of a
\* trace of fewer than 3 points included).
C1_VertexBound == Returned => Len(Poly) <= max_vertices

\* C2: with max_vertices >= 3 the returned polygon has at least 3 vertices,
\* whatever the trace.
C2_AtLeastThree == (Returned /\ max_vertices >= 3) => Len(Poly) >= 3

\* C3: a polygon that went through simplify_polygon, convex_hull,
\* reduce_vertices (when over budget) and the winding step turns the same
\* way everywhere: every cyclic triple of consecutive vertices has a
\* non-negative cross product.
C3_Convex ==
    (Returned /\ ~Degenerate) =>
        \A i \in 1 .. Len(Poly) :
            cross_product(Poly[i], Poly[Next1(i, Len(Poly))], Poly[Next2(i, Len(Poly))]) >= 0

C3_Witness ==
    /\ Returned
    /\ result.calls = <<"simplify_polygon", "convex_hull", "reduce_vertices", "is_counter_clockwise">>
    /\ Len(surface.outline) > 3
    /\ Len(Poly) = 3
    /\ cross_product(Poly[1], Poly[2], Poly[3]) > 0

\* C4: the shoelace sum of the returned polygon is strictly positive for
\* every input.
C4_ShoelacePositive == Returned => ShoelaceSum(Poly) > 0

\* C5 as claimed: a trace of fewer than 3 points gives the box at 90% of the
\* half-dimensions, (-18,-9), (18,-9), (18,9), (-18,9) for width 40 and
\* height 20.
C5_BoxAtNinetyPercent ==
    (Returned /\ Degenerate) => Poly = FallbackBox(surface.width, surface.height)

\* C5 as amended: a trace of fewer than 3 points gives the box at the full
\* half-dimensions, (-20,-10), (20,-10), (20,10), (-20,10) for width 40 and
\* height 20.
C5_BoxAtFullSize ==
    (Returned /\ Degenerate) =>
        /\ Len(Poly) = 4
        /\ \A i \in 1 .. 4 :
               /\ Poly[i][1] = (IF i \in {2, 3} THEN 1 ELSE -1) * 10 * surface.width
               /\ Poly[i][2] = (IF i \in {3, 4} THEN 1 ELSE -1) * 10 * surface.height
        /\ (surface.width = 40 /\ surface.height = 20) =>
               Poly = <<<<-20 * Scale, -10 * Scale>>, <<20 * Scale, -10 * Scale>>,
                        <<20 * Scale, 10 * Scale>>, <<-20 * Scale, 10 * Scale>>>>

C5_Witness ==
    /\ Returned
    /\ surface = TransparentSurface
    /\ Poly[1] = <<-400, -200>>

\* C6: a trace of fewer than 3 points runs neither simplify_polygon nor
\* convex_hull nor reduce_vertices and returns the rectangle
\* (-w/2,-h/2), (w/2,-h/2), (w/2,h/2), (-w/2,h/2).
C6_GuardSkipsStages ==
    (Returned /\ Degenerate) =>
        /\ result.calls = <<>>
        /\ Len(Poly) = 4
        /\ 2 * Poly[1][1] = -Scale * surface.width /\ 2 * Poly[1][2] = -Scale * surface.height
        /\ Poly[2] = <<-Poly[1][1], Poly[1][2]>>
        /\ Poly[3] = <<-Poly[1][1], -Poly[1][2]>>
        /\ Poly[4] = <<Poly[1][1], -Poly[1][2]>>

C6_Witness ==
    /\ Returned
    /\ Len(surface.outline) = 2
    /\ surface.outline[1] # surface.outline[2]
    /\ result.calls = <<>>
    /\ Len(Poly) = 4

(***************************************************************************)
(* Claims about the polygon cache (Spec, SpecThreads)                      *)
(***************************************************************************)
\* C7: single-threaded, all the calls of _get_polygon for an identity
\* return the same polygon, the one the cache holds, and the pipeline has
\* run exactly once for an identity that was asked for, whatever calls for
\* other identities came in between.
C7_ExtractedOnce ==
    \A n \in ANIMAL_IMAGES :
        /\ extract_runs[n] <= 1
        /\ Cardinality(returned[n]) <= 1
        /\ returned[n] # {} =>
               /\ extract_runs[n] = 1
               /\ n \in DOMAIN polygon_cache
               /\ returned[n] = {polygon_cache[n]}

\* two animals of one sprite were built with an animal of the other sprite
\* between them: three calls, two for the same identity
C7_Witness ==
    /\ Len(animals) = 1
    /\ current_animal # None
    /\ animals[1].image_name = "bear.png"
    /\ current_animal.image_name = "bear.png"
    /\ current_animal.polygon = animals[1].polygon
    /\ returned["ghost.png"] # {}
    /\ extract_runs["bear.png"] = 1

\* C8: when two threads ask for the same identity at once, the pipeline
\* runs at most once for it and both get the same polygon.
C8_AtMostOncePerIdentity ==
    \A n \in ANIMAL_IMAGES :
        /\ extract_runs[n] <= 1
        /\ Cardinality(returned[n]) <= 1

\* C9: an entry of the polygon cache is never removed and never changes.
C9_EntriesKept ==
    [][\A n \in DOMAIN polygon_cache :
           /\ n \in DOMAIN polygon_cache'
           /\ polygon_cache'[n] = polygon_cache[n]]_vars

\* both sprites are cached and a game is under way: an animal settled on
\* the tower, the next one spawned and moved off the spawn column
C9_Witness ==
    /\ gm_state = PLAYING
    /\ DOMAIN polygon_cache = ANIMAL_IMAGES
    /\ Len(animals) = 1
    /\ animals[1].state = SETTLED
    /\ current_animal # None
    /\ current_animal.x # SCREEN_WIDTH \div 2

\* C10: when the pipeline raises, _get_polygon returns the 8-point ellipse
\* at 90% of the half-dimensions, stores it under the identity, and later
\* calls return it without another run of the pipeline.
C10_EllipseOnFailure ==
    \A n \in raised :
        LET w9 == 9 * LoadedImage(n).width
            h9 == 9 * LoadedImage(n).height
            a == (707 * w9) \div 1000
            b == (707 * h9) \div 1000
        IN  /\ n \in DOMAIN polygon_cache
            /\ polygon_cache[n] = <<<<w9, 0>>, <<a, b>>, <<0, h9>>, <<-a, b>>,
                                    <<-w9, 0>>, <<-a, -b>>, <<0, -h9>>, <<a, -b>>>>
            /\ returned[n] = {polygon_cache[n]}
            /\ extract_runs[n] = 1

\* the extraction of a sprite raised, and an animal of that sprite was built
\* later from the cached fallback
C10_Witness ==
    /\ "bear.png" \in raised
    /\ Len(animals) = 1
    /\ animals[1].image_name = "bear.png"
    /\ current_animal # None
    /\ current_animal.image_name = "bear.png"
    /\ Len(current_animal.polygon) = 8
    /\ extract_runs["bear.png"] = 1

(***************************************************************************)
(* Claims about one Animal and its body (SpecBody)                         *)
(***************************************************************************)
\* C11: when pymunk rejects the animal's polygon, for the kinematic body of
\* the constructor as for the dynamic body of drop(), no exception leaves
\* the constructor or drop(), the shape is the box at 90% of the
\* half-dimensions, and the animal's body and shape are in the space.
C11_RejectionRecovered ==
    /\ escaped = "none"
    /\ subject # NoSubject =>
           /\ [body |-> subject.body, shape |-> subject.shape] \in space
           /\ subject.rejected =>
                  subject.shape = FallbackBox(subject.animal.width, subject.animal.height)

(***************************************************************************)
(* Claims about the stages (SpecStages)                                    *)
(***************************************************************************)
Input == surface.outline
Output == result.polygon
Points(list) == {list[i] : i \in 1 .. Len(list)}

\* the points of a list with their index as a third coordinate, which no
\* stage reads
Tagged(list) == [i \in 1 .. Len(list) |-> <<list[i][1], list[i][2], i>>]
Untagged(list) == [i \in 1 .. Len(list) |-> <<list[i][1], list[i][2]>>]

\* C12: for a list of 3 or more points, every vertex convex_hull returns is
\* an input point and no input point is strictly to the right of a directed
\* edge of the result, the edge from the last vertex to the first included.
C12_HullContainsInput ==
    (pc = "convex_hull" /\ Len(Input) >= 3) =>
        /\ Points(Output) \subseteq Points(Input)
        /\ \A i \in 1 .. Len(Output) : \A p \in Points(Input) :
               cross_product(Output[i], Output[Next1(i, Len(Output))], p) >= 0

\* kept is the result of simplify_polygon on the tagged input
KeepsEndsInOrder(kept, list, out) ==
    /\ Untagged(kept) = out
    /\ kept[1][3] = 1
    /\ kept[Len(kept)][3] = Len(list)
    /\ \A j \in 1 .. Len(kept) - 1 : kept[j][3] < kept[j + 1][3]
    /\ \A j \in 1 .. Len(kept) : list[kept[j][3]] = out[j]

\* C13: for a list of 1 or more points and a tolerance >= 0,
\* simplify_polygon returns a subsequence of the input (same order, no new
\* point) that starts with the first point and ends with the last; a list
\* of 3 points or fewer comes back unchanged.
C13_SubsequenceWithEnds ==
    (pc = "simplify_polygon" /\ Len(Input) >= 1) =>
        /\ KeepsEndsInOrder(simplify_polygon(Tagged(Input), simplify_tolerance), Input, Output)
        /\ Len(Input) <= 3 => Output = Input

C13_Witness ==
    /\ pc = "simplify_polygon"
    /\ Len(Input) = 5
    /\ Len(Output) = 3
    /\ Output = <<Input[1], Input[2], Input[5]>>
    /\ Input[3] # Input[2]
    /\ Input[1] # Input[5]

\* the points left out between two kept neighbours are within the tolerance
\* of the segment that joins the neighbours
OmittedWithin(kept, list, tolerance) ==
    \A j \in 1 .. Len(kept) - 1 :
        \A i \in kept[j][3] + 1 .. kept[j + 1][3] - 1 :
            ~DistExceeds(perpendicular_distance(list[i], list[kept[j][3]],
                                                list[kept[j + 1][3]]),
                         tolerance)

\* C14: every input point simplify_polygon leaves out is at distance
\* <= tolerance from the segment joining the two kept points around it in
\* the input order (distance to the segment, or to the point when the two
\* ends are equal).
C14_OmittedWithinTolerance ==
    pc = "simplify_polygon" =>
        OmittedWithin(simplify_polygon(Tagged(Input), simplify_tolerance), Input,
                      simplify_tolerance)

\* the list was split at its second point and the rest collapsed: a point
\* off the new chord was left out
C14_Witness ==
    /\ pc = "simplify_polygon"
    /\ simplify_tolerance = 1
    /\ Len(Input) = 5
    /\ Output = <<Input[1], Input[2], Input[5]>>
    /\ perpendicular_distance(Input[3], Input[2], Input[5]).num > 0

\* C15: for a fixed list and t1 <= t2, simplify_polygon with t2 returns no
\* more points than with t1.
C15_ToleranceMonotone ==
    pc = "simplify_polygon" =>
        \A t2 \in Tolerances :
            t2 >= simplify_tolerance =>
                Len(simplify_polygon(Input, t2)) <= Len(Output)

\* the same list gives 5 points at tolerance 0, 3 at tolerance 1 and 2 at
\* tolerance 3
C15_Witness ==
    /\ pc = "simplify_polygon"
    /\ simplify_tolerance = 0
    /\ Len(Output) = 5
    /\ Len(simplify_polygon(Input, 1)) = 3
    /\ Len(simplify_polygon(Input, 3)) = 2

(***************************************************************************)
(* More claims about the pipeline (SpecExtract)                            *)
(***************************************************************************)
\* C16: the polygon extract_polygon_from_surface returns has no two equal
\* vertices next to each other, the last and the first included, also when
\* the trace repeats points or ends where it starts.
C16_NoRepeatedVertex ==
    Returned =>
        \A i \in 1 .. Len(Poly) :
            Next1(i, Len(Poly)) # i => Poly[i] # Poly[Next1(i, Len(Poly))]

Reduced == IF Len(result.calls) = 2 THEN convex_hull(Input) ELSE Input

\* C18: for a list of n points and 1 <= max_count < n, reduce_vertices
\* returns max_count points, the i-th being the input point at index
\* floor(i * n / max_count) for i = 0 .. max_count - 1 (indices within
\* 0 .. n-1, strictly increasing, the first 0); for n <= max_count the list
\* comes back unchanged.
C18_UniformSample ==
    pc = "reduce_vertices" =>
        IF Len(Reduced) <= max_vertices
        THEN Output = Reduced
        ELSE /\ Len(Output) = max_vertices
             /\ \A i \in 0 .. max_vertices - 1 :
                    /\ (i * Len(Reduced)) \div max_vertices \in 0 .. Len(Reduced) - 1
                    /\ Output[i + 1] = Reduced[(i * Len(Reduced)) \div max_vertices + 1]
                    /\ i > 0 => (i * Len(Reduced)) \div max_vertices
                                    > ((i - 1) * Len(Reduced)) \div max_vertices

\* C19: reduce_vertices keeps convexity and winding: for a list convex_hull
\* returned and 3 <= max_count < its length, the resampled list has a
\* non-negative cross product on every cyclic triple of consecutive points
\* and a strictly positive shoelace sum.
C19_ReducedStaysConvex ==
    (pc = "reduce_vertices" /\ Len(result.calls) = 2
        /\ max_vertices >= 3 /\ max_vertices < Len(Reduced)) =>
        /\ \A i \in 1 .. Len(Output) :
               cross_product(Output[i], Output[Next1(i, Len(Output))],
                             Output[Next2(i, Len(Output))]) >= 0
        /\ ShoelaceSum(Output) > 0

\* a hull of 12 vertices cut down to 5
C19_Witness ==
    /\ pc = "reduce_vertices"
    /\ result.calls = <<"convex_hull", "reduce_vertices">>
    /\ Len(Input) = 12
    /\ convex_hull(Input) = Input
    /\ max_vertices = 5
    /\ Output = <<Input[1], Input[3], Input[5], Input[8], Input[10]>>

\* C20: the winding step reverses the list exactly when its shoelace sum is
\* <= 0 and leaves it alone when the sum is > 0; the result's shoelace sum
\* is the absolute value of the input's; applied a second time it changes
\* nothing when the sum is not zero.
C20_WindingStep ==
    pc = "winding" =>
        IF Len(result.calls) = 1
        THEN /\ Output = IF ShoelaceSum(Input) <= 0 THEN Reversed(Input) ELSE Input
             /\ ShoelaceSum(Output) = IF ShoelaceSum(Input) < 0 THEN -ShoelaceSum(Input)
                                      ELSE ShoelaceSum(Input)
        ELSE ShoelaceSum(Input) # 0 =>
                 Output = IF ShoelaceSum(Input) < 0 THEN Reversed(Input) ELSE Input

\* a clockwise list was reversed by the first application and kept by the
\* second
C20_Witness ==
    /\ pc = "winding"
    /\ Len(result.calls) = 2
    /\ ShoelaceSum(Input) < 0
    /\ Output = Reversed(Input)
    /\ Output # Input

\* C21: on the path with at least three trace points every vertex of the
\* result is a trace point minus (width / 2, height / 2), the later stages
\* only selecting and reordering points, and so every vertex lies in the
\* rectangle [-width/2, width/2] x [-height/2, height/2].  Coordinates are
\* compared doubled, in units of 1/Scale pixel.
C21_VerticesAreTracePoints ==
    (Returned /\ ~Degenerate) =>
        \A i \in 1 .. Len(Poly) :
            /\ \E j \in 1 .. Len(surface.outline) :
                   /\ 2 * Poly[i][1] = Scale * (2 * surface.outline[j][1] - surface.width)
                   /\ 2 * Poly[i][2] = Scale * (2 * surface.outline[j][2] - surface.height)
            /\ 2 * Poly[i][1] \in -(Scale * surface.width) .. Scale * surface.width
            /\ 2 * Poly[i][2] \in -(Scale * surface.height) .. Scale * surface.height

\* a four-point trace on the 3 x 3 image came back as three vertices, one of
\* them the recentred corner pixel (0, 0)
C21_Witness ==
    /\ Returned
    /\ Len(surface.outline) = 4
    /\ surface.width = 3
    /\ Len(Poly) = 3
    /\ \E i \in 1 .. 3 : Poly[i] = <<-30, -30>>

\* C22: the state of an Animal only moves CONTROLLED -> FALLING -> SETTLED.
\* A new Animal is CONTROLLED or FALLING; drop() is the only operation that
\* leaves CONTROLLED and changes nothing in any other state; update() is the only
\* operation that enters SETTLED, and only from FALLING; SETTLED is never
\* left; move() changes the position only while the state is CONTROLLED.
C22_StateOrder ==
    [][/\ (subject = NoSubject /\ subject' # NoSubject) =>
              subject'.animal.state \in {CONTROLLED, FALLING}
       /\ (subject # NoSubject /\ subject' # NoSubject) =>
              /\ subject'.animal.state # subject.animal.state =>
                     \/ /\ subject.animal.state = CONTROLLED
                        /\ subject'.animal.state = FALLING
                        /\ BodyDrop
                     \/ /\ subject.animal.state = FALLING
                        /\ subject'.animal.state = SETTLED
                        /\ BodyUpdate
              /\ (BodyDrop /\ subject.animal.state # CONTROLLED) =>
                     UNCHANGED <<subject, space, escaped>>
              /\ subject.animal.state = SETTLED => subject'.animal.state = SETTLED
              /\ animal_position(subject'.animal) # animal_position(subject.animal) =>
                     /\ subject.animal.state = CONTROLLED
                     /\ BodyMove]_vars

\* an Animal that was moved aside while CONTROLLED, dropped, and has settled
C22_Witness ==
    /\ subject # NoSubject
    /\ subject.animal.state = SETTLED
    /\ subject.animal.x = SCREEN_WIDTH \div 2 + MOVE_SPEED

C24_StateCycle ==
    [][/\ gm_state' = MENU => gm_state = MENU
       /\ (gm_state' = PLAYING /\ gm_state # PLAYING) => StartGame
       /\ (gm_state' = GAME_OVER /\ gm_state # GAME_OVER) =>
              /\ gm_state = PLAYING
              /\ ~(StartGame \/ HandleInput \/ GetPolygon)
              /\ \E i \in 1 .. Len(animals') : animal_y(animals'[i]) > GAME_OVER_Y
       /\ (gm_state # PLAYING /\ (Update \/ HandleInput)) =>
              UNCHANGED <<animals, current_animal, score, tower_height, max_height>>]_vars

\* the game was lost with a settled animal counted: the dropped animal is
\* below GAME_OVER_Y and the score of the game is kept on the screen
C24_Witness ==
    /\ gm_state = GAME_OVER
    /\ Len(animals) = 1
    /\ animal_y(animals[1]) > GAME_OVER_Y
    /\ score = 1

\* the number of SETTLED members of a list of animals
SettledMembers(list) == Cardinality({i \in 1 .. Len(list) : list[i].state = SETTLED})

\* C25: after every update() that leaves the state PLAYING, score is the
\* number of SETTLED animals that are members of animals at that moment, also
\* when the update removes animals that drifted beyond GAME_OVER_X_MARGIN
\* after settling.
C25_ScoreCountsSettled ==
    [][(Update /\ gm_state = PLAYING /\ gm_state' = PLAYING) =>
           score' = SettledMembers(animals')]_vars

====
